---- MODULE Spec2Model ----
(***************************************************************************)
(* Model of LogisticRegression (src/LogisticRegression/logisticregression.py) *)
(* : the constructor, fit (one step per loop iteration) and predict.        *)
(*                                                                         *)
(* Floating point numbers are modelled as fixed-point integers with Scale  *)
(* units per 1.0 and round-to-nearest after every operation; the IEEE      *)
(* special values inf and nan are two reserved integers.  np.exp and      *)
(* np.log are computed by range reduction and a power series, so sigmoid   *)
(* saturates to exactly 0 or 1 for large scores and log(0) is -inf, as in  *)
(* numpy.  Python's None is the empty tuple.                               *)
(***************************************************************************)
EXTENDS Integers, Sequences, FiniteSets, TLC

\* ------------------------------------------------------------------ bounds
\* the largest max_iteration of a model that is fitted once, the largest
\* patience, the largest max_iteration of a model that is fitted again, and
\* the number of fit calls on such a model
MaxIteration == 105
MaxPatience == 3
MaxRefitIteration == 6
MaxFits == 2

\* ------------------------------------------------------- numeric encoding
Scale == 1000
Inf == 1000000000
NaN == 2000000000
None == << >>

Abs(a) == IF a < 0 THEN -a ELSE a

\* a / b rounded to the nearest unit (b > 0)
RDiv(a, b) ==
  IF a >= 0 THEN (2 * a + b) \div (2 * b) ELSE -((2 * (-a) + b) \div (2 * b))

IsFinite(a) == a # NaN /\ a # Inf /\ a # -Inf

\* c * v for a finite c and an extended v, both in Scale units unless raw
FMul(c, v) ==
  IF v = NaN THEN NaN
  ELSE IF v = Inf \/ v = -Inf
       THEN (IF c = 0 THEN NaN ELSE IF c > 0 THEN v ELSE -v)
       ELSE c * v

FAdd(a, b) ==
  IF a = NaN \/ b = NaN THEN NaN
  ELSE IF a = Inf \/ a = -Inf
       THEN (IF b = -a THEN NaN ELSE a)
       ELSE IF b = Inf \/ b = -Inf THEN b ELSE a + b

FNeg(a) == IF a = NaN THEN NaN ELSE -a

\* a < b on floats: every comparison with nan is False
Less(a, b) == a # NaN /\ b # NaN /\ a < b

ExpSeries(r) ==
  LET t1 == r
      t2 == RDiv(t1 * r, 2 * Scale)
      t3 == RDiv(t2 * r, 3 * Scale)
      t4 == RDiv(t3 * r, 4 * Scale)
      t5 == RDiv(t4 * r, 5 * Scale)
      t6 == RDiv(t5 * r, 6 * Scale)
  IN  Scale + t1 + t2 + t3 + t4 + t5 + t6

\* np.exp: overflows to inf, underflows to 0
RECURSIVE exp(_)
exp(z) ==
  IF z > 20 * Scale THEN Inf
  ELSE IF z < -(20 * Scale) THEN 0
  ELSE IF Abs(z) > Scale \div 2
       THEN LET h == exp(RDiv(z, 2))
            IN  IF h >= 30 * Scale THEN Inf ELSE RDiv(h * h, Scale)
       ELSE ExpSeries(z)

LogSeries(p) ==
  LET u  == RDiv((p - Scale) * Scale, p + Scale)
      u2 == RDiv(u * u, Scale)
      u3 == RDiv(u2 * u, Scale)
      u5 == RDiv(u3 * u2, Scale)
      u7 == RDiv(u5 * u2, Scale)
  IN  2 * (u + RDiv(u3, 3) + RDiv(u5, 5) + RDiv(u7, 7))

\* np.log: log(0) = -inf, log of a negative number or of nan is nan
RECURSIVE log(_)
log(p) ==
  IF p = NaN \/ p < 0 THEN NaN
  ELSE IF p = 0 THEN -Inf
  ELSE IF 2 * p <= Scale THEN log(2 * p) + LogSeries(Scale \div 2)
  ELSE LogSeries(p)

\* 1 / (1 + np.exp(-Z)), element-wise
sigmoid(z) ==
  LET e == exp(-z) IN IF e = Inf THEN 0 ELSE RDiv(Scale * Scale, Scale + e)

\* ------------------------------------------------------------ array rules
RECURSIVE SumTo(_, _)
SumTo(v, n) == IF n = 0 THEN 0 ELSE FAdd(SumTo(v, n - 1), v[n])

\* np.sum of a one-dimensional array
Sum(v) == SumTo(v, Len(v))

\* np.mean of a one-dimensional array
Mean(v) == LET s == Sum(v) IN IF IsFinite(s) THEN RDiv(s, Len(v)) ELSE s

\* np.dot of a feature row (raw integers) and the weight vector
DotRow(row, w) == Sum([j \in 1..Len(row) |-> row[j] * w[j]])

\* element-wise broadcasting of two one-dimensional shapes
CanBroadcast(l, n) == l = n \/ l = 1 \/ n = 1

BroadcastLen(l, n) == IF l > n THEN l ELSE n

\* the element of v that position k of the broadcast result reads
At(v, k) == IF Len(v) = 1 THEN v[1] ELSE v[k]

\* sigmoid(np.dot(X, weights) + bias)
Forward(X, w, b) == [n \in 1..Len(X) |-> sigmoid(DotRow(X[n], w) + b)]

\* the shapes for which the log-loss line does not raise
LossShapeOk(X, y) == CanBroadcast(Len(y), Len(X))

\* np.mean(-(y * log(y_pred) + (1 - y) * log(1 - y_pred)))
Loss(X, y, w, b) ==
  LET p == Forward(X, w, b)
      m == BroadcastLen(Len(y), Len(X))
  IN  Mean([k \in 1..m |->
        FNeg(FAdd(FMul(At(y, k), log(At(p, k))),
                  FMul(1 - At(y, k), log(Scale - At(p, k)))))])

\* y_pred - y_train
Residual(X, y, w, b) ==
  LET p == Forward(X, w, b)
      m == BroadcastLen(Len(y), Len(X))
  IN  [k \in 1..m |-> At(p, k) - Scale * At(y, k)]

\* np.dot(X_train.T, r) needs one residual per sample
GradShapeOk(X, y) == BroadcastLen(Len(y), Len(X)) = Len(X)

\* dw = (1 / num_samples) * np.dot(X_train.T, y_pred - y_train)
Dw(X, y, w, b) ==
  LET r == Residual(X, y, w, b)
  IN  [j \in 1..Len(w) |-> RDiv(Sum([n \in 1..Len(X) |-> X[n][j] * r[n]]), Len(X))]

\* db = (1 / num_samples) * np.sum(y_pred - y_train)
Db(X, y, w, b) == RDiv(Sum(Residual(X, y, w, b)), Len(X))

\* weights -= learning_rate * dw
StepWeights(lr, X, y, w, b) ==
  LET dw == Dw(X, y, w, b) IN [j \in 1..Len(w) |-> w[j] - RDiv(lr * dw[j], Scale)]

\* bias -= learning_rate * db
StepBias(lr, X, y, w, b) == b - RDiv(lr * Db(X, y, w, b), Scale)

\* ------------------------------------------------------------------ inputs
\* a balanced two-sample set, the logical AND of the spec's scenario, and
\* three calls whose label vector has the wrong length
TrainBalanced == [X |-> << <<1, 0>>, <<-1, 1>> >>, y |-> <<1, 0>>]
TrainAnd == [X |-> << <<0, 0>>, <<0, 1>>, <<1, 0>>, <<1, 1>> >>, y |-> <<0, 0, 0, 1>>]
TrainShort == [X |-> << <<1, 0>>, <<-1, 1>> >>, y |-> <<1>>]
TrainLong == [X |-> << <<1, 0>>, <<-1, 1>> >>, y |-> <<1, 0, 1>>]
TrainOneRow == [X |-> << <<1, 0>> >>, y |-> <<1, 0>>]

WellFormedTrain == {TrainBalanced, TrainAnd}
MalformedTrain == {TrainShort, TrainLong, TrainOneRow}

\* validation arguments: both, none, or only one of the two
ValAgree == [X |-> << <<1, 0>>, <<-1, 1>> >>, y |-> <<1, 0>>]
ValOppose == [X |-> << <<1, 0>>, <<-1, 1>> >>, y |-> <<0, 1>>]
ValMixed == [X |-> << <<2, 0>>, <<1, 0>> >>, y |-> <<1, 0>>]
ValAbsent == [X |-> None, y |-> None]
ValOnlyX == [X |-> << <<1, 0>>, <<-1, 1>> >>, y |-> None]
ValOnlyY == [X |-> None, y |-> <<1, 0>>]

ValChoices == {ValAgree, ValOppose, ValMixed, ValAbsent, ValOnlyX, ValOnlyY}

\* an optional number is None or a 1-tuple
PatienceChoices == {None} \cup {<<p>> : p \in 1..MaxPatience}
CtorPatience == {None, <<MaxPatience - 1>>}

\* 0.01 (the default), 0.05 and 50.0
LearningRates == {Scale \div 100, Scale \div 20, 50 * Scale}
MaxIterations == {1, 2, MaxIteration}
DefaultThreshold == Scale \div 2
Thresholds == {0, DefaultThreshold, (3 * Scale) \div 4, Scale}

TestSets == { << <<0, 0>>, <<1, 0>>, <<-1, 1>> >>, << <<1, 1>>, <<0, 0>> >> }

\* ------------------------------------------------------------------- state
VARIABLES
  learning_rate, max_iteration, self_patience, threshold,  \* configuration
  weights, bias,                                           \* parameters
  X_train, y_train, X_val, y_val, patience, print_loss,    \* fit's arguments
  i, train_losses, val_losses, best_loss, no_improvement_count, \* fit's locals
  pc,          \* "new", "loop", "post", "returned", "raised"
  stdout,      \* the lines printed by the current fit call
  X_test, y_pred_cls,                  \* predict's argument and return value
  calls,       \* number of fit calls made
  updates,     \* parameter updates applied by the current fit call
  stopped,     \* the current fit call left the loop through break
  valSeen,     \* validation losses computed by the current fit call
  valAt,       \* parameters at which the last validation loss was computed
  trajectory,  \* parameters after each update of the current fit call
  history      \* one record per finished fit call

vars == << learning_rate, max_iteration, self_patience, threshold, weights, bias,
           X_train, y_train, X_val, y_val, patience, print_loss,
           i, train_losses, val_losses, best_loss, no_improvement_count,
           pc, stdout, X_test, y_pred_cls, calls,
           updates, stopped, valSeen, valAt, trajectory, history >>

config == << learning_rate, max_iteration, self_patience, threshold >>
args == << X_train, y_train, X_val, y_val, patience, print_loss >>
locals == << i, train_losses, val_losses, best_loss, no_improvement_count >>
ghosts == << updates, stopped, valSeen, valAt, trajectory >>

\* __init__: the configuration is stored, there are no parameters yet
Constructed(lrs, its, pats, ths) ==
  /\ learning_rate \in lrs
  /\ max_iteration \in its
  /\ self_patience \in pats
  /\ threshold \in ths
  /\ weights = None /\ bias = None
  /\ X_train = None /\ y_train = None /\ X_val = None /\ y_val = None
  /\ patience = None /\ print_loss = TRUE
  /\ i = 0 /\ train_losses = << >> /\ val_losses = None
  /\ best_loss = Inf /\ no_improvement_count = 0
  /\ pc = "new" /\ stdout = << >>
  /\ X_test = None /\ y_pred_cls = None
  /\ calls = 0 /\ updates = 0 /\ stopped = FALSE
  /\ valSeen = << >> /\ valAt = None /\ trajectory = << >> /\ history = << >>

\* ----------------------------------------------------------------- helpers
\* X_val is not None and y_val is not None
HasVal == X_val # None /\ y_val # None

\* (a fit that keeps the parameters of an earlier fit)
WarmStart(n) == IF weights = None THEN [j \in 1..n |-> 0] ELSE weights

\* np.zeros(num_features)
InitialWeights(n) == [j \in 1..n |-> 0]

\* (a loop that stops one iteration short)
InRangeShort(k) == k < max_iteration - 1

\* range(self.max_iteration) has an index k
InRange(k) == k < max_iteration

\* the reporting cadence
ReportEvery == 100

\* (traces collected whether or not print_loss is set)
ReportingAnyway(k) == k % ReportEvery = 0

\* print_loss and i % 100 == 0
Reporting(k) == print_loss /\ k % ReportEvery = 0

\* (an equal loss taken for an improvement)
ImprovedOrEqual(val_loss, best) == val_loss # NaN /\ best # NaN /\ val_loss <= best

\* val_loss < best_loss
Improved(val_loss, best) == Less(val_loss, best)

\* the patience the early-stopping test reads: fit's own argument
UsedPatience == patience

\* patience and no_improvement_count >= patience
StopTest(count) ==
  /\ UsedPatience # None
  /\ UsedPatience[1] # 0
  /\ count >= UsedPatience[1]

\* (a gradient computed on the validation set when there is one)
GradDataVal ==
  IF X_val # None /\ y_val # None THEN [X |-> X_val, y |-> y_val]
  ELSE [X |-> X_train, y |-> y_train]

\* the data the gradient is computed on
GradData == [X |-> X_train, y |-> y_train]

\* (a gradient step placed before the early-stopping test)
StepRunsAlways(stop) == TRUE

\* the gradient step of an iteration runs unless break left the loop before it
StepRuns(stop) == ~stop

\* (a probability on the threshold classified as 1)
ClassifyAtLeast(p, th) == IF p # NaN /\ th # NaN /\ p >= th THEN 1 ELSE 0

\* 1 if i > self.threshold else 0
Classify(p, th) == IF Less(th, p) THEN 1 ELSE 0

\* what a finished fit call leaves behind
Outcome(how, n) ==
  [X_train |-> X_train, y_train |-> y_train, X_val |-> X_val, y_val |-> y_val,
   patience |-> patience, print_loss |-> print_loss,
   how |-> how, weights |-> weights, bias |-> bias,
   trajectory |-> trajectory, iterations |-> n]

\* ----------------------------------------------------------------- actions
\* fit, up to the loop: the parameters are reset and the locals initialised
Fit(train, val, pat, pl) ==
  /\ pc \in {"new", "returned", "raised"}
  /\ X_train' = train.X /\ y_train' = train.y
  /\ X_val' = val.X /\ y_val' = val.y
  /\ patience' = pat /\ print_loss' = pl
  /\ weights' = InitialWeights(Len(train.X[1]))
  /\ bias' = 0
  /\ train_losses' = << >>
  /\ val_losses' = IF val.X # None /\ val.y # None THEN << << >> >> ELSE None
  /\ best_loss' = Inf
  /\ no_improvement_count' = 0
  /\ i' = 0
  /\ pc' = IF InRange(0) THEN "loop" ELSE "post"
  /\ stdout' = << >>
  /\ calls' = calls + 1
  /\ updates' = 0 /\ stopped' = FALSE
  /\ valSeen' = << >> /\ valAt' = None /\ trajectory' = << >>
  /\ UNCHANGED << config, X_test, y_pred_cls, history >>

\* one iteration of the loop of fit
FitIteration ==
  /\ pc = "loop"
  /\ IF ~LossShapeOk(X_train, y_train)
     THEN \* the element-wise product of labels and log-probabilities raises
          /\ pc' = "raised"
          /\ history' = Append(history, Outcome("raised", i + 1))
          /\ UNCHANGED << config, weights, bias, args, locals, stdout,
                          X_test, y_pred_cls, calls, ghosts >>
     ELSE LET loss == Loss(X_train, y_train, weights, bias)
              val_loss == Loss(X_val, y_val, weights, bias)
              better == Improved(val_loss, best_loss)
              count == IF better THEN 0 ELSE no_improvement_count + 1
              stop == HasVal /\ StopTest(count)
              w2 == StepWeights(learning_rate, GradData.X, GradData.y, weights, bias)
              b2 == StepBias(learning_rate, GradData.X, GradData.y, weights, bias)
          IN  /\ train_losses' = IF Reporting(i) THEN Append(train_losses, loss)
                                 ELSE train_losses
              /\ val_losses' = IF HasVal /\ Reporting(i)
                               THEN << Append(val_losses[1], val_loss) >>
                               ELSE val_losses
              /\ best_loss' = IF HasVal /\ better THEN val_loss ELSE best_loss
              /\ no_improvement_count' = IF HasVal THEN count ELSE no_improvement_count
              /\ valSeen' = IF HasVal THEN Append(valSeen, val_loss) ELSE valSeen
              /\ valAt' = IF HasVal THEN << weights, bias >> ELSE valAt
              /\ stdout' = (IF Reporting(i) THEN Append(stdout, <<"Loss", i, loss>>)
                            ELSE stdout)
                           \o (IF stop THEN << <<"Stopped", i + 1, 0>> >> ELSE << >>)
              /\ stopped' = stop
              /\ IF stop
                 THEN /\ weights' = IF StepRuns(TRUE) THEN w2 ELSE weights
                      /\ bias' = IF StepRuns(TRUE) THEN b2 ELSE bias
                      /\ pc' = "post"
                      /\ UNCHANGED << i, updates, trajectory, history >>
                 ELSE IF ~GradShapeOk(X_train, y_train)
                 THEN \* np.dot(X_train.T, y_pred - y_train) raises
                      /\ pc' = "raised"
                      /\ history' = Append(history, Outcome("raised", i + 1))
                      /\ UNCHANGED << weights, bias, i, updates, trajectory >>
                 ELSE /\ weights' = w2
                      /\ bias' = b2
                      /\ updates' = updates + 1
                      /\ trajectory' = Append(trajectory, << w2, b2 >>)
                      /\ i' = i + 1
                      /\ pc' = IF InRange(i + 1) THEN "loop" ELSE "post"
                      /\ UNCHANGED history
              /\ UNCHANGED << config, args, X_test, y_pred_cls, calls >>

\* after the loop: the plot (no effect on the model), then fit returns
FitReturn ==
  /\ pc = "post"
  /\ pc' = "returned"
  /\ history' = Append(history, Outcome("returned", IF stopped THEN i + 1 ELSE i))
  /\ UNCHANGED << config, weights, bias, args, locals, stdout,
                  X_test, y_pred_cls, calls, ghosts >>

\* predict: a pure read of the parameters
Predict(test) ==
  /\ pc \in {"returned", "raised"}
  /\ X_test' = test
  /\ y_pred_cls' = LET y_pred == Forward(test, weights, bias)
                   IN  [n \in 1..Len(test) |-> Classify(y_pred[n], threshold)]
  /\ UNCHANGED << config, weights, bias, args, locals, pc, stdout, calls,
                  ghosts, history >>

\* ---------------------------------------------------------- specifications
\* a model with any configuration is fitted once, with any arguments, and
\* then asked for predictions
FitCall ==
  /\ calls < 1
  /\ \E train \in WellFormedTrain \cup MalformedTrain, val \in ValChoices,
        pat \in PatienceChoices, pl \in BOOLEAN : Fit(train, val, pat, pl)

PredictCall == \E test \in TestSets : Predict(test)

Init == Constructed(LearningRates, MaxIterations, CtorPatience, {DefaultThreshold})

Next == FitCall \/ FitIteration \/ FitReturn \/ PredictCall

Spec == Init /\ [][Next]_vars

\* the same, for short fits and every threshold
InitPredict == Constructed({Scale, 50 * Scale}, {1, 2}, {None}, Thresholds)

SpecPredict == InitPredict /\ [][Next]_vars

\* a model is fitted MaxFits times on well-formed data
RefitCall ==
  /\ calls < MaxFits
  /\ \E train \in WellFormedTrain,
        val \in {ValAgree, ValOppose, ValMixed, ValAbsent},
        pat \in {None, <<1>>, <<MaxPatience - 1>>} : Fit(train, val, pat, TRUE)

InitRefit == Constructed({Scale}, {2, MaxRefitIteration}, {None}, {DefaultThreshold})

NextRefit == RefitCall \/ FitIteration \/ FitReturn

SpecRefit == InitRefit /\ [][NextRefit]_vars

\* ------------------------------------------------------------------ claims
\* the fit call in progress or last finished got past the failing lines
Running == pc \in {"loop", "post", "returned"}

\* fit has left its loop without raising
LoopLeft == pc \in {"post", "returned"}

\* iterations of the loop executed so far by the current fit call
Executed == IF stopped THEN i + 1 ELSE i

\* the label vector has one label per row of X_train
WellShaped == Len(y_train) = Len(X_train)

\* the patience the specification says fit uses: the argument when it is
\* not None, the constructor's otherwise
EffectivePatience == IF patience # None THEN patience ELSE self_patience

\* C1: with validation data and an effective patience p >= 1, fit leaves the
\* loop at the first iteration at which the non-improvement counter reaches
\* p: never later (a counter at p means the loop was left), never earlier
\* (a loop left through break has its counter at exactly p), and before
\* max_iteration iterations were completed.
C1_StopsWhenCounterReachesPatience ==
  (Running /\ WellShaped /\ HasVal
     /\ EffectivePatience # None /\ EffectivePatience[1] >= 1)
    => /\ no_improvement_count >= EffectivePatience[1] => stopped
       /\ stopped => /\ no_improvement_count = EffectivePatience[1]
                     /\ i < max_iteration
                     /\ updates < max_iteration

\* C2: a model constructed with patience p and fitted with validation data
\* and no patience argument stops once the non-improvement counter reaches p.
C2_ConstructorPatienceIsUsed ==
  (Running /\ WellShaped /\ HasVal /\ patience = None /\ self_patience # None
     /\ no_improvement_count >= self_patience[1])
    => stopped

\* C3: without both validation arrays the best loss and the counter keep
\* their initial values, no validation loss is computed, the loop is never
\* left through break, and a fit that leaves the loop has executed exactly
\* max_iteration iterations and applied exactly max_iteration updates.
C3_NoValidationNoEarlyExit ==
  (calls > 0 /\ ~HasVal)
    => /\ best_loss = Inf
       /\ no_improvement_count = 0
       /\ valSeen = << >>
       /\ ~stopped
       /\ LoopLeft => (i = max_iteration /\ updates = max_iteration
                       /\ Len(trajectory) = max_iteration)

\* a fit given only X_val, with a patience, has returned after a long loop
C3_Witness ==
  /\ pc = "returned" /\ X_val # None /\ y_val = None
  /\ patience = <<1>> /\ self_patience # None
  /\ updates = MaxIteration

\* the probability predict computes for sample n of X_test
Probability(n) == sigmoid(DotRow(X_test[n], weights) + bias)

\* C4: predict returns one label per sample, in input order, and the label
\* is 1 exactly when the sample's probability is strictly greater than the
\* threshold (so a probability equal to the threshold gives 0).
C4_PredictThreshold ==
  y_pred_cls # None
    => /\ Len(y_pred_cls) = Len(X_test)
       /\ \A n \in 1..Len(X_test) :
            /\ y_pred_cls[n] \in {0, 1}
            /\ y_pred_cls[n] = 1 <=> Probability(n) > threshold

\* one sample sits exactly on the threshold and gets 0, another gets 1
C4_Witness ==
  /\ y_pred_cls # None
  /\ \E n \in 1..Len(X_test) : Probability(n) = threshold /\ y_pred_cls[n] = 0
  /\ \E n \in 1..Len(X_test) : y_pred_cls[n] = 1
  /\ weights # InitialWeights(Len(weights))

\* C5: a fit call whose label vector is not as long as X_train has rows
\* does not complete training: it never leaves the loop normally.
C5_LengthMismatchFails ==
  (calls > 0 /\ Len(y_train) # Len(X_train)) => ~LoopLeft

\* C8: with print_loss the training-loss trace has one entry for each
\* executed iteration 0, 100, 200, ... and no other (each entry is the loss
\* printed for that iteration), so floor(k/100)+1 entries after iteration k;
\* with validation data the validation-loss trace is as long as the
\* training-loss trace; without print_loss both traces stay empty.
C8_LossTraceCadence ==
  /\ (Running /\ print_loss)
       => /\ Len(train_losses) =
               IF Executed = 0 THEN 0 ELSE ((Executed - 1) \div 100) + 1
          /\ \A k \in 1..Len(train_losses) :
               stdout[k] = <<"Loss", 100 * (k - 1), train_losses[k]>>
  /\ (calls > 0 /\ HasVal)
       => /\ val_losses # None
          /\ Len(val_losses[1]) = Len(train_losses)
  /\ ~print_loss
       => /\ train_losses = << >>
          /\ val_losses \in {None, << << >> >>}

\* a fit with validation data stopped early after iteration 100
C8_Witness ==
  /\ LoopLeft /\ print_loss /\ HasVal /\ stopped
  /\ i >= 100 /\ Len(train_losses) = 2 /\ Len(val_losses[1]) = 2

\* validation loss k is a strict new minimum of the losses up to k
StrictMinAt(k) ==
  /\ Less(valSeen[k], Inf)
  /\ \A j \in 1..(k - 1) : valSeen[j] = NaN \/ valSeen[k] < valSeen[j]

\* the iteration (counted from 1) of the latest strict new minimum, or 0
LastStrictMin ==
  LET ks == {k \in 1..Len(valSeen) : StrictMinAt(k)}
  IN  IF ks = {} THEN 0 ELSE CHOOSE k \in ks : \A m \in ks : m <= k

\* C9: with validation data, after every executed iteration one validation
\* loss has been computed per iteration, best_loss is the minimum of the
\* validation losses seen, and the counter is the number of iterations
\* since the latest strict new minimum; a loss equal to the best is no
\* improvement, and a finite first loss is one.
C9_BestAndCounter ==
  (Running /\ HasVal)
    => /\ Len(valSeen) = Executed
       /\ best_loss = IF LastStrictMin = 0 THEN Inf ELSE valSeen[LastStrictMin]
       /\ \A k \in 1..Len(valSeen) : valSeen[k] = NaN \/ best_loss <= valSeen[k]
       /\ no_improvement_count = Len(valSeen) - LastStrictMin
       /\ (Len(valSeen) >= 1 /\ IsFinite(valSeen[1])) => LastStrictMin >= 1
       /\ (Len(valSeen) = 1 /\ IsFinite(valSeen[1])) => no_improvement_count = 0

\* the latest loss equals a best loss that was itself found after two
\* non-improving iterations, at an iteration that reports nothing
C9_Witness ==
  /\ Running /\ HasVal
  /\ Len(valSeen) >= 4 /\ Len(valSeen) % 100 # 1
  /\ LastStrictMin >= 4
  /\ ~StrictMinAt(LastStrictMin - 1) /\ ~StrictMinAt(LastStrictMin - 2)
  /\ LastStrictMin < Len(valSeen)
  /\ valSeen[Len(valSeen)] = best_loss
  /\ no_improvement_count >= 1

\* C10: a fit that stops early at loop index i has applied exactly i
\* updates, its parameters are those at which the last validation loss was
\* computed, and it reports iteration i+1; a fit that does not stop early
\* has applied exactly max_iteration updates.
C10_StopBeforeUpdate ==
  LoopLeft
    => IF stopped
       THEN /\ updates = i
            /\ Len(trajectory) = i
            /\ << weights, bias >> = valAt
            /\ << weights, bias >> =
                 IF i = 0 THEN << InitialWeights(Len(weights)), 0 >> ELSE trajectory[i]
            /\ stdout[Len(stdout)] = <<"Stopped", i + 1, 0>>
       ELSE /\ updates = max_iteration
            /\ i = max_iteration
            /\ \A k \in 1..Len(stdout) : stdout[k][1] # "Stopped"

\* an early stop whose last validation loss is not the best one
C10_Witness ==
  /\ LoopLeft /\ stopped /\ i >= 2
  /\ valSeen[Len(valSeen)] # best_loss
  /\ i < max_iteration - 1
  /\ weights # InitialWeights(Len(weights))

\* two finished fit calls had the same arguments
SameArguments(a, b) ==
  /\ a.X_train = b.X_train /\ a.y_train = b.y_train
  /\ a.X_val = b.X_val /\ a.y_val = b.y_val
  /\ a.patience = b.patience /\ a.print_loss = b.print_loss

\* C6: every fit call starts from all-zero weights and zero bias whatever
\* an earlier fit left, and two fit calls with the same arguments end with
\* the same weights, bias and number of executed iterations.
C6_Determinism ==
  /\ (pc = "loop" /\ updates = 0)
       => weights = [j \in 1..Len(X_train[1]) |-> 0] /\ bias = 0
  /\ \A a, b \in 1..Len(history) :
       SameArguments(history[a], history[b])
         => /\ history[a].weights = history[b].weights
            /\ history[a].bias = history[b].bias
            /\ history[a].iterations = history[b].iterations
            /\ history[a].how = history[b].how

\* the same fit, run on a new model and again on the trained one
C6_Witness ==
  /\ Len(history) = 2
  /\ SameArguments(history[1], history[2])
  /\ history[1].iterations >= 2
  /\ history[1].weights # [j \in 1..Len(X_train[1]) |-> 0]
  /\ history[1].bias # 0

\* trajectory s agrees with trajectory t wherever both are defined
AgreeOnCommonPrefix(s, t) ==
  \A k \in 1..(IF Len(s) < Len(t) THEN Len(s) ELSE Len(t)) : s[k] = t[k]

\* C7: two fits with the same training data and configuration have the same
\* weights and bias after their k-th update, for every k both reach,
\* whatever their validation data and patience.
C7_ValidationNeverMovesParameters ==
  \A a \in 1..Len(history) :
    (history[a].X_train = X_train /\ history[a].y_train = y_train)
      => AgreeOnCommonPrefix(history[a].trajectory, trajectory)

\* two fits on the same training data, with different validation data, that
\* executed different numbers of updates
C7_Witness ==
  /\ Len(history) = 2
  /\ history[1].X_train = history[2].X_train
  /\ history[1].y_train = history[2].y_train
  /\ history[1].X_val # None /\ history[2].X_val # None
  /\ history[1].y_val # history[2].y_val
  /\ Len(history[1].trajectory) >= 2
  /\ Len(history[2].trajectory) > Len(history[1].trajectory)

====
